---- MODULE Spec2Model ----
(***************************************************************************)
(* State-machine model of loginas/utils.py (django-loginas).               *)
(*                                                                         *)
(* One request/session pair is driven through login_as,                    *)
(* restore_original_login and the framework's logout (specification Spec); *)
(* several threads of one process run login_as concurrently against the    *)
(* process-wide user_logged_in signal (specification SpecConc).            *)
(*                                                                         *)
(* Framework primitives are modelled by what they do:                      *)
(*   login()   flushes the session when it holds another user's id, stores *)
(*             the user id and backend, sets request.user and sends        *)
(*             user_logged_in;                                             *)
(*   logout()  flushes the session and makes request.user anonymous;       *)
(*   TimestampSigner.sign() turns the value into text and attaches the     *)
(*             time and a signature made with the current SECRET_KEY;      *)
(*   TimestampSigner.unsign() checks the signature, then the age.          *)
(* A token is kept as its signed text, its age in days (time.time() minus  *)
(* its timestamp) and whether its signature verifies under the current     *)
(* SECRET_KEY.                                                             *)
(***************************************************************************)
EXTENDS Integers, Sequences, FiniteSets, TLC

\* ------------------------------------------------------------------ bounds
NumUsers == 3
NumThreads == 2

\* ------------------------------------------------------- program constants
\* la_settings.USER_SESSION_DAYS_TIMESTAMP (days a signed flag stays valid)
USER_SESSION_DAYS_TIMESTAMP == 1

\* request.user.pk of an anonymous request (Python None)
NonePk == -1

\* primary keys of the saved users (an AutoField counts from 1, so every
\* saved user's key is a true value for `if original_user_pk:`)
Users == 1..NumUsers

\* session keys
SESSION_KEY == "_auth_user_id"
BACKEND_SESSION_KEY == "_auth_user_backend"
USER_SESSION_FLAG == "loginas_from_user"

\* registrations of update_last_login on user_logged_in:
\* "plain" is connect(receiver), "uid" is connect(receiver, dispatch_uid=...)
Registrations == {"plain", "uid"}

\* `user` has no attribute `backend`
NoAttr == 0
\* the for loop of login_as ran to its else branch
NoBackend == 0

\* what the framework login may do besides succeeding: the session store
\* raises before anything is written, or a user_logged_in receiver raises
\* after the session was switched
LoginFaults == {"none", "session", "receiver"}

\* a configured backend: whether it has get_user, and the users get_user returns
Backend(has_get_user, knows) == [has_get_user |-> has_get_user, knows |-> knows]

\* django_settings.AUTHENTICATION_BACKENDS: a backend without get_user that
\* would return every user, then one that loads user 1 only, then one that
\* loads every user but the last (who is left without a usable backend)
AUTHENTICATION_BACKENDS ==
    << Backend(FALSE, Users), Backend(TRUE, {1}), Backend(TRUE, Users \ {NumUsers}) >>

VARIABLES
    UPDATE_LAST_LOGIN,       \* la_settings.UPDATE_LAST_LOGIN
    reqUser,                 \* request.user.pk
    session,                 \* request.session, a dict
    logged,                  \* LogEntry rows the last call added to the table, in order
    queued,                  \* levels of the messages the last call queued on the request
    sig,                     \* registrations of update_last_login on user_logged_in
    last,                    \* the last call made on the request and how it ended
    pc,                      \* per thread: position inside login_as
    th,                      \* per thread: locals of login_as / no_update_last_login
    sig0,                    \* registrations when the threads started
    lastLoginUpdated         \* users whose last_login a concurrent login_as updated

settings == <<UPDATE_LAST_LOGIN>>
concVars == <<pc, th, sig0, lastLoginUpdated>>
vars == <<UPDATE_LAST_LOGIN, reqUser, session, logged, queued, sig, last,
          pc, th, sig0, lastLoginUpdated>>

\* ---------------------------------------------------------------- helpers
\* request.session as a dict
EmptySession == [k \in {} |-> NonePk]
Put(s, k, v) == [x \in (DOMAIN s) \cup {k} |-> IF x = k THEN v ELSE s[x]]
Del(s, k) == [x \in (DOMAIN s) \ {k} |-> s[x]]

\* Python truth value of a primary key (`if original_user_pk:`)
Truthy(pk) == pk # NonePk /\ pk # 0

\* "%s" % value, as TimestampSigner.sign formats the value it signs
Str(pk) == IF pk = NonePk THEN "None" ELSE ToString(pk)

\* signer.sign(value): the text of the value, stamped now, signed with the
\* current key
signer_sign(value) == [value |-> Str(value), age |-> 0, valid |-> TRUE]

\* max_age with the day dropped by a unit slip
max_age_short == USER_SESSION_DAYS_TIMESTAMP - 1

\* max_age handed to signer.unsign, in days
max_age == USER_SESSION_DAYS_TIMESTAMP

\* unsign that never looks at the age
signer_unsign_no_max_age(token) ==
    IF ~token.valid THEN [exc |-> "BadSignature", value |-> ""]
    ELSE [exc |-> "none", value |-> token.value]

\* unsign that never verifies the signature
signer_unsign_unverified(token) ==
    IF token.age > max_age THEN [exc |-> "SignatureExpired", value |-> ""]
    ELSE [exc |-> "none", value |-> token.value]

\* signer.unsign(token, max_age): BadSignature when the signature does not
\* verify, else SignatureExpired when the token is older than max_age, else
\* the signed text
signer_unsign(token) ==
    IF ~token.valid THEN [exc |-> "BadSignature", value |-> ""]
    ELSE IF token.age > max_age THEN [exc |-> "SignatureExpired", value |-> ""]
    ELSE [exc |-> "none", value |-> token.value]

\* a lookup that takes the first row instead of filtering on the key
objects_get_first(text, found) ==
    IF \A u \in Users : ToString(u) # text THEN [exc |-> "ValueError", pk |-> NonePk]
    ELSE IF ~found THEN [exc |-> "DoesNotExist", pk |-> NonePk]
    ELSE [exc |-> "none", pk |-> 1]

\* get_user_model().objects.get(pk=text): ValueError when the text is no
\* number, DoesNotExist when no such row (found = FALSE: the row was deleted
\* in the meantime), else the user
objects_get(text, found) ==
    IF \A u \in Users : ToString(u) # text THEN [exc |-> "ValueError", pk |-> NonePk]
    ELSE IF ~found THEN [exc |-> "DoesNotExist", pk |-> NonePk]
    ELSE [exc |-> "none", pk |-> CHOOSE u \in Users : ToString(u) = text]

\* hasattr(load_backend(b), "get_user") and user == load_backend(b).get_user(user.pk)
Matches(b, user) ==
    /\ AUTHENTICATION_BACKENDS[b].has_get_user
    /\ user \in AUTHENTICATION_BACKENDS[b].knows

\* a loop without the break: the last matching backend wins
FindBackend_no_break(user) ==
    IF \E b \in 1..Len(AUTHENTICATION_BACKENDS) : Matches(b, user)
    THEN CHOOSE b \in 1..Len(AUTHENTICATION_BACKENDS) :
            Matches(b, user)
            /\ \A c \in (b + 1)..Len(AUTHENTICATION_BACKENDS) : ~Matches(c, user)
    ELSE NoBackend

\* the for ... else of login_as: the first matching backend, in order
FindBackend(user) ==
    IF \E b \in 1..Len(AUTHENTICATION_BACKENDS) : Matches(b, user)
    THEN CHOOSE b \in 1..Len(AUTHENTICATION_BACKENDS) :
            Matches(b, user) /\ \A c \in 1..(b - 1) : ~Matches(c, user)
    ELSE NoBackend

\* request.user.pk read after login has replaced request.user
original_user_pk_after_login(st, user) == user

\* original_user_pk = request.user.pk, taken before login replaces request.user
original_user_pk(st, user) == st.user

\* log_action with the two ids exchanged
LogEntry_swapped(user_id, object_id) == [user_id |-> object_id, object_id |-> user_id]

\* the LogEntry row written by log_action
LogEntry(user_id, object_id) == [user_id |-> user_id, object_id |-> object_id]

\* a logout that forgets to flush the session
logout_no_flush(st) == [st EXCEPT !.user = NonePk]

\* django.contrib.auth.logout: flush the session, request.user = AnonymousUser()
logout(st) == [st EXCEPT !.session = EmptySession, !.user = NonePk]

\* django.contrib.auth.login: a session of another user is flushed, the id
\* and the backend are stored, request.user is set and user_logged_in is sent
\* (update_last_login runs when it is connected)
login(st, user, backend, fault) ==
    IF fault = "session" THEN [st EXCEPT !.outcome = "LoginError"]
    ELSE
      LET kept == IF SESSION_KEY \in DOMAIN st.session
                  THEN IF st.session[SESSION_KEY] # user THEN EmptySession
                       ELSE st.session
                  ELSE st.session
          stored == Put(Put(kept, SESSION_KEY, user), BACKEND_SESSION_KEY, backend)
      IN [st EXCEPT !.session = stored,
                    !.user = user,
                    !.updated = (st.sig # {}),
                    !.outcome = IF fault = "receiver" THEN "LoginError" ELSE "ok"]

\* with no_update_last_login(): login(request, user)
no_update_last_login(st, user, backend, fault) ==
    LET was_connected == "plain" \in st.sig
        sigA == st.sig \ {"plain"}
        was_connected_id == ~was_connected /\ "uid" \in sigA
        sigB == IF was_connected THEN sigA ELSE sigA \ {"uid"}
        body == login([st EXCEPT !.sig = sigB], user, backend, fault)
    IN IF body.outcome # "ok"
       THEN body
       ELSE [body EXCEPT !.sig = IF was_connected THEN @ \cup {"plain"}
                                 ELSE IF was_connected_id THEN @ \cup {"uid"}
                                 ELSE @]

\* login_as(user, request, store_original_user); attr is user.backend when the
\* caller's user object carries one, else NoAttr
login_as_result(st, user, attr, store_original_user, fault) ==
    LET pk == original_user_pk(st, user)
        backend == IF attr = NoAttr THEN FindBackend(user) ELSE attr
    IN IF backend = NoBackend
       THEN [st EXCEPT !.outcome = "ImproperlyConfigured"]
       ELSE
         LET audited == IF Truthy(pk)
                       THEN [st EXCEPT !.log = Append(@, LogEntry(pk, user))]
                       ELSE st
             in == IF UPDATE_LAST_LOGIN
                   THEN login(audited, user, backend, fault)
                   ELSE no_update_last_login(audited, user, backend, fault)
         IN IF in.outcome # "ok" THEN in
            ELSE IF store_original_user
            THEN [in EXCEPT !.msgs = Append(@, "warning"),
                            !.session = Put(@, USER_SESSION_FLAG, signer_sign(pk))]
            ELSE in

\* restore_original_login(request)
restore_original_login_result(st, found, fault) ==
    LET has == USER_SESSION_FLAG \in DOMAIN st.session
        out == logout(st)
    IN IF ~has THEN out
       ELSE
         LET un == signer_unsign(st.session[USER_SESSION_FLAG])
         IN IF un.exc = "SignatureExpired" THEN out
            ELSE IF un.exc # "none" THEN [out EXCEPT !.outcome = un.exc]
            ELSE
              LET got == objects_get(un.value, found)
              IN IF got.exc # "none" THEN [out EXCEPT !.outcome = got.exc]
                 ELSE
                   LET told == [out EXCEPT !.msgs = Append(@, "info")]
                       back == login_as_result(told, got.pk, NoAttr, FALSE, fault)
                   IN IF back.outcome # "ok" THEN back
                      ELSE IF USER_SESSION_FLAG \in DOMAIN back.session
                      THEN [back EXCEPT !.session = Del(@, USER_SESSION_FLAG)]
                      ELSE back

\* is_impersonated_session(request); a request is [has_session, session]
is_impersonated_session(request) ==
    request.has_session /\ USER_SESSION_FLAG \in DOMAIN request.session

\* the request as the handlers see it
Request == [has_session |-> TRUE, session |-> session]
\* a request built without the session middleware
BareRequest == [has_session |-> FALSE, session |-> EmptySession]

\* the state a handler starts from; log and msgs collect what the call adds
\* to the LogEntry table and to the message queue (the code reads neither)
Now ==
    [user |-> reqUser, session |-> session, log |-> <<>>, msgs |-> <<>>,
     sig |-> sig, updated |-> FALSE, outcome |-> "ok"]

\* write a handler's result back
Commit(st) ==
    /\ reqUser' = st.user
    /\ session' = st.session
    /\ logged' = st.log
    /\ queued' = st.msgs
    /\ sig' = st.sig

\* a request is authenticated only as a user some configured backend loads
\* (the auth middleware reads request.user through the backend's get_user)
Usable(user) == FindBackend(user) # NoBackend
\* user.backend as the caller may pass it: absent, or set by authenticate()
\* to a configured backend that loads the user
Attrs(user) == {NoAttr} \cup {b \in 1..Len(AUTHENTICATION_BACKENDS) : Matches(b, user)}

Threads == 1..NumThreads

\* a thread outside login_as, and its locals before the call
Idle == [t \in Threads |-> "idle"]
NoLocals ==
    [t \in Threads |->
        [user |-> NonePk, session |-> EmptySession, original_user_pk |-> NonePk,
         target |-> NonePk, store |-> FALSE, backend |-> NoBackend,
         was_connected |-> FALSE, was_connected_id |-> FALSE,
         connected_at_login |-> FALSE]]

\* where a run of calls stands in the nested scenario: login_as with
\* store_original_user on a session that already carries a flag, then
\* restore_original_login twice
Chain(op, store, outcome, had_flag, user) ==
    IF op = "login_as" /\ store /\ outcome = "ok"
    THEN IF had_flag /\ last.chain \in {"impersonating", "nested"}
         THEN "nested" ELSE "impersonating"
    ELSE IF op = "restore_original_login" /\ last.chain = "nested"
              /\ outcome = "ok" /\ user # NonePk
    THEN "restored_once"
    ELSE IF op = "restore_original_login" /\ last.chain = "restored_once"
    THEN "restored_twice"
    ELSE "none"

\* the record of a call: what was called, on what, and how it ended
Called(op, target, store, st) ==
    [op |-> op, target |-> target, store |-> store, prev |-> reqUser,
     had_flag |-> (USER_SESSION_FLAG \in DOMAIN session), outcome |-> st.outcome,
     chain |-> Chain(op, store, st.outcome, USER_SESSION_FLAG \in DOMAIN session,
                     st.user)]

\* ------------------------------------------------------------------- Init
\* the session of a request the middleware authenticated as `user`
SessionOf(user) ==
    IF user = NonePk THEN EmptySession
    ELSE Put(Put(EmptySession, SESSION_KEY, user), BACKEND_SESSION_KEY, FindBackend(user))

Init ==
    /\ UPDATE_LAST_LOGIN \in BOOLEAN
    /\ reqUser \in {NonePk} \cup {u \in Users : Usable(u)}
    /\ session = SessionOf(reqUser)
    /\ logged = <<>>
    /\ queued = <<>>
    /\ sig \in {{}} \cup {{r} : r \in Registrations}
    /\ last = [op |-> "none", target |-> NonePk, store |-> FALSE, prev |-> reqUser,
               had_flag |-> FALSE, outcome |-> "ok", chain |-> "none"]
    /\ pc = Idle
    /\ th = NoLocals
    /\ sig0 = sig
    /\ lastLoginUpdated = {}

\* ------------------------------------------- actions on one request (Spec)
\* a view calls login_as(user, request, store_original_user)
login_as(user, attr, store_original_user, fault) ==
    /\ LET st == login_as_result(Now, user, attr, store_original_user, fault)
       IN /\ Commit(st)
          /\ last' = Called("login_as", user, store_original_user, st)
    /\ UNCHANGED <<settings, concVars>>

\* a view calls restore_original_login(request)
restore_original_login(found, fault) ==
    /\ LET st == restore_original_login_result(Now, found, fault)
       IN /\ Commit(st)
          /\ last' = Called("restore_original_login", NonePk, FALSE, st)
    /\ UNCHANGED <<settings, concVars>>

\* a view calls the framework's logout(request)
PlainLogout ==
    /\ LET st == logout(Now)
       IN /\ Commit(st)
          /\ last' = Called("logout", NonePk, FALSE, st)
    /\ UNCHANGED <<settings, concVars>>

\* a day passes: the flag in the session is a day older (an expired flag
\* stays expired, so its age is not counted further)
Tick ==
    /\ USER_SESSION_FLAG \in DOMAIN session
    /\ session[USER_SESSION_FLAG].age <= USER_SESSION_DAYS_TIMESTAMP
    /\ session' = [session EXCEPT ![USER_SESSION_FLAG].age = @ + 1]
    /\ UNCHANGED <<settings, reqUser, logged, queued, sig, last, concVars>>

\* SECRET_KEY is replaced: the flag's signature no longer verifies
RotateKey ==
    /\ USER_SESSION_FLAG \in DOMAIN session
    /\ session[USER_SESSION_FLAG].valid
    /\ session' = [session EXCEPT ![USER_SESSION_FLAG].valid = FALSE]
    /\ UNCHANGED <<settings, reqUser, logged, queued, sig, last, concVars>>

LoginAsStep ==
    \E user \in Users : \E attr \in Attrs(user) : \E store \in BOOLEAN :
        \E fault \in LoginFaults : login_as(user, attr, store, fault)

RestoreStep ==
    \E found \in BOOLEAN : \E fault \in LoginFaults : restore_original_login(found, fault)

Next ==
    \/ LoginAsStep
    \/ RestoreStep
    \/ PlainLogout
    \/ Tick
    \/ RotateKey

Spec == Init /\ [][Next]_vars

\* -------------------------- login_as in concurrent threads (SpecConc)
\* Each thread serves its own request (its own session) and calls login_as
\* once; the threads share user_logged_in and the LogEntry table. A step is
\* one call on the signal or one framework call; here the framework login
\* always succeeds.
seqVars == <<reqUser, session, queued, last>>

\* lines 47-72: a request authenticated as `user` calls login_as(target,
\* request, store): take original_user_pk, find the backend, write the LogEntry
Enter(t, user, target, store) ==
    /\ pc[t] = "idle"
    /\ LET backend == FindBackend(target)
           pk == original_user_pk([user |-> user], target)
       IN /\ th' = [th EXCEPT ![t].user = user, ![t].session = SessionOf(user),
                              ![t].original_user_pk = pk,
                              ![t].target = target,
                              ![t].store = store, ![t].backend = backend]
          /\ pc' = [pc EXCEPT ![t] =
                       IF backend = NoBackend THEN "raised"
                       ELSE IF UPDATE_LAST_LOGIN THEN "login"
                       ELSE "disconnect"]
          /\ logged' = IF backend # NoBackend /\ Truthy(pk)
                       THEN Append(logged, LogEntry(pk, target))
                       ELSE logged
    /\ UNCHANGED <<settings, seqVars, sig, sig0, lastLoginUpdated>>

\* line 31: was_connected = user_logged_in.disconnect(receiver)
Disconnect(t) ==
    /\ pc[t] = "disconnect"
    /\ th' = [th EXCEPT ![t].was_connected = ("plain" \in sig)]
    /\ sig' = sig \ {"plain"}
    /\ pc' = [pc EXCEPT ![t] = "disconnect_id"]
    /\ UNCHANGED <<settings, seqVars, logged, sig0, lastLoginUpdated>>

\* line 32: was_connected_id = not was_connected and disconnect(receiver, dispatch_uid)
DisconnectId(t) ==
    /\ pc[t] = "disconnect_id"
    /\ th' = [th EXCEPT ![t].was_connected_id =
                 (~th[t].was_connected /\ "uid" \in sig)]
    /\ sig' = IF th[t].was_connected THEN sig ELSE sig \ {"uid"}
    /\ pc' = [pc EXCEPT ![t] = "login"]
    /\ UNCHANGED <<settings, seqVars, logged, sig0, lastLoginUpdated>>

\* lines 79, 82: login(request, user); user_logged_in runs update_last_login
\* when it is connected at that moment
Login(t) ==
    /\ pc[t] = "login"
    /\ LET st == login([user |-> th[t].user, session |-> th[t].session, sig |-> sig,
                        updated |-> FALSE, outcome |-> "ok"],
                       th[t].target, th[t].backend, "none")
       IN /\ th' = [th EXCEPT ![t].user = st.user, ![t].session = st.session,
                              ![t].connected_at_login = st.updated]
          /\ lastLoginUpdated' = IF st.updated
                                 THEN lastLoginUpdated \cup {th[t].target}
                                 ELSE lastLoginUpdated
    /\ pc' = [pc EXCEPT ![t] = IF UPDATE_LAST_LOGIN THEN "flag" ELSE "reconnect"]
    /\ UNCHANGED <<settings, seqVars, logged, sig, sig0>>

\* lines 34-38: the generator resumes after yield and reconnects
Reconnect(t) ==
    /\ pc[t] = "reconnect"
    /\ sig' = IF th[t].was_connected THEN sig \cup {"plain"}
              ELSE IF th[t].was_connected_id THEN sig \cup {"uid"}
              ELSE sig
    /\ pc' = [pc EXCEPT ![t] = "flag"]
    /\ UNCHANGED <<settings, seqVars, logged, th, sig0, lastLoginUpdated>>

\* lines 84-91: the session flag
SetFlag(t) ==
    /\ pc[t] = "flag"
    /\ th' = [th EXCEPT ![t].session =
                 IF th[t].store
                 THEN Put(@, USER_SESSION_FLAG, signer_sign(th[t].original_user_pk))
                 ELSE @]
    /\ pc' = [pc EXCEPT ![t] = "done"]
    /\ UNCHANGED <<settings, seqVars, logged, sig, sig0, lastLoginUpdated>>

NextConc ==
    \/ \E t \in Threads : \E user \in {NonePk} \cup {u \in Users : Usable(u)} :
          \E target \in Users : \E store \in BOOLEAN : Enter(t, user, target, store)
    \/ \E t \in Threads : Disconnect(t)
    \/ \E t \in Threads : DisconnectId(t)
    \/ \E t \in Threads : Login(t)
    \/ \E t \in Threads : Reconnect(t)
    \/ \E t \in Threads : SetFlag(t)

SpecConc == Init /\ [][NextConc]_vars
\* ------------------------------------------------------------- properties
HasFlag == USER_SESSION_FLAG \in DOMAIN session
Flag == session[USER_SESSION_FLAG]
\* the flag verifies under the current key and is within its validity period
FlagGood == HasFlag /\ Flag.valid /\ Flag.age <= USER_SESSION_DAYS_TIMESTAMP
\* the last call was login_as(.., store_original_user=True) and returned normally
Impersonated == last.op = "login_as" /\ last.store /\ last.outcome = "ok"

\* C1: round trip. A request authenticated as A calls login_as(B) with
\* store_original_user, then restore_original_login while the flag is within
\* its validity period (the signing key unchanged, A's row still there, the
\* framework login not failing): the call returns normally, the session is
\* authenticated as A again and carries no flag.
C1_RoundTrip ==
    [][\A found \in BOOLEAN : \A fault \in LoginFaults :
          ( /\ Impersonated /\ last.prev \in Users
            /\ FlagGood /\ found /\ fault = "none"
            /\ restore_original_login(found, fault) )
          => /\ last'.outcome = "ok"
             /\ reqUser' = last.prev
             /\ SESSION_KEY \in DOMAIN session' /\ session'[SESSION_KEY] = last.prev
             /\ USER_SESSION_FLAG \notin DOMAIN session']_vars

\* the session is back with A after having been B's
C1_Witness ==
    /\ last.op = "restore_original_login" /\ last.outcome = "ok" /\ last.had_flag
    /\ reqUser \in Users /\ last.prev \in Users /\ reqUser # last.prev
    /\ ~HasFlag

\* C2: after login_as(user, request, store_original_user=True) returns
\* normally the session is authenticated as `user`, and the flag is a token
\* that unsigns to the text of the primary key request.user had before the call.
C2_FlagHoldsOriginalUser ==
    [][\A user \in Users : \A attr \in Attrs(user) : \A fault \in LoginFaults :
          ( /\ last'.op = "login_as" /\ last'.target = user /\ last'.outcome = "ok"
            /\ login_as(user, attr, TRUE, fault) )
          => /\ reqUser' = user
             /\ SESSION_KEY \in DOMAIN session' /\ session'[SESSION_KEY] = user
             /\ USER_SESSION_FLAG \in DOMAIN session'
             /\ signer_unsign(session'[USER_SESSION_FLAG])
                  = [exc |-> "none", value |-> Str(reqUser)]]_vars

\* A impersonates another user B: the flag names A, not B
C2_Witness ==
    /\ Impersonated /\ last.prev \in Users /\ last.prev # last.target
    /\ reqUser = last.target
    /\ HasFlag /\ Flag.value = Str(last.prev) /\ Flag.value # Str(last.target)

\* C3: a login_as call by a request authenticated as A that switches the
\* session to B writes exactly one LogEntry, with user_id A and object_id B;
\* a login_as call by an anonymous request (restore_original_login's
\* included) writes none.
C3_AuditEntry ==
    /\ (last.op = "login_as" /\ last.outcome = "ok" /\ last.prev \in Users)
          => logged = << [user_id |-> last.prev, object_id |-> last.target] >>
    /\ (last.op = "login_as" /\ last.prev = NonePk) => logged = <<>>
    /\ last.op = "restore_original_login" => logged = <<>>

\* A switched to another user B and the table got the row (A, B)
C3_Witness ==
    /\ last.op = "login_as" /\ last.outcome = "ok"
    /\ last.prev \in Users /\ last.prev # last.target /\ reqUser = last.target
    /\ Len(logged) = 1 /\ logged[1].user_id = last.prev

\* C4: is_impersonated_session(request) is true exactly when the session
\* holds the flag: false before any call, true after login_as with
\* store_original_user, false after login_as without it on a session that had
\* no flag, false after restore_original_login returns normally and after a
\* logout; false for a request without a session.
C4_ImpersonatedIffFlag ==
    /\ is_impersonated_session(Request) <=> HasFlag
    /\ last.op = "none" => ~is_impersonated_session(Request)
    /\ Impersonated => is_impersonated_session(Request)
    /\ (last.op = "login_as" /\ ~last.store /\ ~last.had_flag)
          => ~is_impersonated_session(Request)
    /\ (last.op = "restore_original_login" /\ last.outcome = "ok")
          => ~is_impersonated_session(Request)
    /\ last.op = "logout" => ~is_impersonated_session(Request)
    /\ ~is_impersonated_session(BareRequest)

\* an impersonated session was restored without a login (its flag had
\* expired) and no longer counts as impersonated
C4_Witness ==
    /\ last.op = "restore_original_login" /\ last.outcome = "ok" /\ last.had_flag
    /\ reqUser = NonePk
    /\ ~is_impersonated_session(Request)

\* C5: every call that runs `with no_update_last_login()` leaves
\* update_last_login registered on user_logged_in exactly as it found it,
\* whether the body completes or raises.
C5_SignalRestoredOnEveryExit ==
    [][(LoginAsStep \/ RestoreStep) => sig' = sig]_vars

\* C6: restore_original_login on a session without the flag, or with a flag
\* older than USER_SESSION_DAYS_TIMESTAMP days, returns without raising and
\* leaves the session logged out and empty, with no LogEntry and no message
\* added; whatever the flag, nothing of the old session survives the call's
\* logout but what a login writes afterwards.
C6_NothingToRestore ==
    [][\A found \in BOOLEAN : \A fault \in LoginFaults :
          (last'.op = "restore_original_login" /\ restore_original_login(found, fault))
          => /\ USER_SESSION_FLAG \notin DOMAIN session'
             /\ (~HasFlag \/ (Flag.valid /\ Flag.age > USER_SESSION_DAYS_TIMESTAMP))
                  => /\ last'.outcome = "ok"
                     /\ reqUser' = NonePk
                     /\ session' = EmptySession
                     /\ logged' = <<>>
                     /\ queued' = <<>>]_vars

\* an expired flag was met: the call returned, the session is anonymous
C6_Witness ==
    /\ last.op = "restore_original_login" /\ last.outcome = "ok" /\ last.had_flag
    /\ last.prev \in Users
    /\ reqUser = NonePk /\ session = EmptySession /\ queued = <<>>

\* C7: however restore_original_login ends, the session is anonymous or is
\* authenticated as the user whose primary key a flag carried that verified
\* and was unexpired when the call started.
C7_OnlySignedOriginal ==
    [][\A found \in BOOLEAN : \A fault \in LoginFaults :
          (last'.op = "restore_original_login" /\ restore_original_login(found, fault))
          => \/ reqUser' = NonePk /\ SESSION_KEY \notin DOMAIN session'
             \/ /\ FlagGood
                /\ Flag.value = Str(reqUser')
                /\ session'[SESSION_KEY] = reqUser']_vars

\* a flag whose signature does not verify: the call raised, nobody is logged in
C7_Witness ==
    /\ last.op = "restore_original_login" /\ last.outcome = "BadSignature"
    /\ last.prev \in Users
    /\ reqUser = NonePk

\* C8: login_as for a user without a backend attribute whom no configured
\* backend with get_user returns raises ImproperlyConfigured and changes
\* nothing (request.user, session, signal, LogEntry table, messages); when a
\* backend matches, the one stored is the first matching in configuration order.
C8_BackendSearch ==
    [][\A user \in Users : \A store \in BOOLEAN : \A fault \in LoginFaults :
          ( /\ last'.op = "login_as" /\ last'.target = user /\ last'.store = store
            /\ login_as(user, NoAttr, store, fault) )
          => IF \A b \in 1..Len(AUTHENTICATION_BACKENDS) : ~Matches(b, user)
             THEN /\ last'.outcome = "ImproperlyConfigured"
                  /\ reqUser' = reqUser /\ session' = session /\ sig' = sig
                  /\ logged' = <<>> /\ queued' = <<>>
             ELSE /\ last'.outcome # "ImproperlyConfigured"
                  /\ last'.outcome = "ok"
                       => /\ Matches(session'[BACKEND_SESSION_KEY], user)
                          /\ \A c \in 1..(session'[BACKEND_SESSION_KEY] - 1) :
                                ~Matches(c, user)]_vars

\* the call raised on an authenticated session that carries a flag
C8_Witness ==
    /\ last.op = "login_as" /\ last.outcome = "ImproperlyConfigured"
    /\ reqUser \in Users /\ reqUser = last.prev
    /\ HasFlag /\ last.had_flag

\* C9: nested impersonation. After login_as with store_original_user on a
\* session that already carries a flag, the flag names only the user of the
\* moment before that call; restore_original_login returns the session to that
\* user and removes the flag; a second restore_original_login leaves the
\* session anonymous.
C9_NestedRestore ==
    [][/\ \A found \in BOOLEAN : \A fault \in LoginFaults :
            (last.chain \in {"nested", "restored_once"}
               /\ restore_original_login(found, fault))
            => /\ (last.chain = "nested" /\ last.prev \in Users /\ FlagGood
                      /\ found /\ fault = "none")
                    => /\ last'.chain = "restored_once"
                       /\ reqUser' = last.prev
                       /\ USER_SESSION_FLAG \notin DOMAIN session'
               /\ last.chain = "restored_once"
                    => /\ last'.chain = "restored_twice"
                       /\ reqUser' = NonePk
                       /\ session' = EmptySession
       /\ \A user \in Users : \A attr \in Attrs(user) : \A fault \in LoginFaults :
            ( /\ last'.chain = "nested" /\ last'.target = user
              /\ login_as(user, attr, TRUE, fault) )
            => /\ session'[USER_SESSION_FLAG].value = Str(reqUser)
               /\ session'[USER_SESSION_FLAG].age = 0]_vars

\* two restores after a nested impersonation: nobody is logged in
C9_Witness ==
    /\ last.chain = "restored_twice"
    /\ last.prev \in Users
    /\ reqUser = NonePk /\ ~HasFlag

\* C10: with UPDATE_LAST_LOGIN false, update_last_login is not connected at
\* the moment a login_as performs the framework login, whatever the
\* interleaving of concurrent login_as calls, so no last_login is updated; and
\* once every call has finished the receiver is registered as before.
C10_NoLastLoginUpdate ==
    ~UPDATE_LAST_LOGIN
    => /\ \A t \in Threads : ~th[t].connected_at_login
       /\ lastLoginUpdated = {}
       /\ (\A t \in Threads : pc[t] \in {"done", "raised"}) => sig = sig0
====
